---------------------------- MODULE Spec2Model ----------------------------
(***************************************************************************)
(* serverless-mocha-plugin (src/index.js): the two command handlers of     *)
(* class mochaPlugin, createTest and runTests, with their helpers          *)
(* getFunctions and setEnvVars, as a state machine over the host's         *)
(* function declarations, the files on disk, the process environment, the  *)
(* logging sink and the test-execution engine (mocha).                     *)
(*                                                                         *)
(* JavaScript strings that the code takes apart (handlers, the             *)
(* reporter-options string) are sequences of one-character strings; names  *)
(* that are only compared (function names, variable names) are atoms.      *)
(* An optional value is a record [def, val]; `undefined` is Undef(d).      *)
(***************************************************************************)
EXTENDS Integers, Sequences, FiniteSets, TLC

\* ------------------------------------------------------------------ bounds
MaxHandlerLen == 5      \* longest handler string of a declaration
MaxOptLen == 4          \* longest reporter-options string
MaxReq == 2             \* longest list of requested function names
MaxKeys == 2            \* number of distinct environment variable names
MaxFailures == 256      \* largest failure count the engine reports

\* ------------------------------------------------------------ value space
FuncNames == {"hello", "world"}          \* names the host may declare
AllNames == FuncNames \cup {"ghost"}     \* "ghost" is never declared
HandlerChars == {"h", ".", "\\"}
OptChars == {"a", ",", "="}
EnvKeys == 1..MaxKeys
Stages == {"dev"}
Regions == {"us"}

Some(v) == [def |-> TRUE, val |-> v]
Undef(d) == [def |-> FALSE, val |-> d]

\* serverless.environment: vars, stages[stage].vars and
\* stages[stage].regions[region].vars, each a flat mapping.
MakeEnvironment(g, st, rg) ==
  [vars |-> g,
   stages |-> [x \in Stages |->
                 [vars |-> st, regions |-> [y \in Regions |-> [vars |-> rg]]]]]
\* No environment loaded.
NoEnvironment == Undef(MakeEnvironment(<<>>, <<>>, <<>>))

\* The variables of one scope: any of the names, each with the scope's value.
ScopeVars(value) == {[k \in S |-> value] : S \in SUBSET EnvKeys}

RECURSIVE StringsUpTo(_, _)
StringsUpTo(chars, n) ==
  IF n = 0 THEN {<<>>}
  ELSE LET shorter == StringsUpTo(chars, n - 1)
       IN shorter \cup {Append(s, c) : s \in shorter, c \in chars}

\* ------------------------------------------------- JavaScript string steps
\* String.prototype.split with a one-character separator: the pieces between
\* the separators, so the empty string splits to one empty piece.
RECURSIVE split(_, _)
split(s, sep) ==
  IF s = <<>> THEN << <<>> >>
  ELSE LET rest == split(Tail(s), sep)
       IN IF Head(s) = sep
          THEN << <<>> >> \o rest
          ELSE << <<Head(s)>> \o rest[1] >> \o Tail(rest)

\* String.prototype.replace(/\\/g, '/'): every backslash becomes a slash.
replaceBackslashes(s) == [i \in 1..Len(s) |-> IF s[i] = "\\" THEN "/" ELSE s[i]]


\* ------------------------------------------------------------------- state
VARIABLES
  options,       \* this.options: f, function, reporter, reporter-options, stage, region
  functions,     \* serverless.service.functions: name -> handler string
  environment,   \* serverless.environment, undefined until runTests loads it
  procEnv,       \* process.env: variable name -> value
  files,         \* test files on disk: path -> content
  localTemplate, \* whether the project-local template file exists
  testDir,       \* whether the test folder exists
  log,           \* serverless.cli.log: the messages logged so far
  pc,            \* the callback the event loop runs next
  ctx,           \* createTest's closure: testFilePath, funcPath, funcCall, exists, content
  writesIssued,  \* calls of fs.writeFile so far
  hostEnvironment, \* the environment the host's service.load resolves with
  resolved,      \* what getFunctions resolved to
  funcs,         \* what utils.getTestFiles resolved to
  testFileMap,   \* runTests' testFileMap: function name -> its entry
  mocha,         \* the Mocha instance: files added, reporter set, run started
  suite,         \* the engine's current suite: its file, whether a test ran
  exitHandler,   \* the failure count the registered 'exit' handler holds
  exitStatus     \* the status the process ended with

vars == <<options, functions, environment, procEnv, files, localTemplate,
          testDir, log, pc, ctx, writesIssued, hostEnvironment, resolved,
          funcs, testFileMap, mocha, suite, exitHandler, exitStatus>>

createVars == <<ctx, writesIssued, localTemplate, testDir>>
hostVars == <<options, functions, files, hostEnvironment>>
runVars == <<environment, procEnv, hostEnvironment, resolved, funcs,
             testFileMap, mocha, suite, exitHandler, exitStatus>>

\* ------------------------------------------------------- option values
\* A --function option: absent, one string, or an array of strings.
NoFunc == [kind |-> "undefined", names |-> <<>>]
OneFunc(name) == [kind |-> "string", names |-> <<name>>]
FuncList(names) == [kind |-> "array", names |-> names]

\* JavaScript truthiness of such a value: undefined and '' are falsy, any
\* array (the empty one too) is truthy.
truthy(v) ==
  \/ v.kind = "array"
  \/ v.kind = "string" /\ v.names[1] # ""

\* The .length of such a value: of the array, or of the string (a name is
\* a non-empty string, so only '' has length 0).
jsLength(v) ==
  IF v.kind = "array" THEN Len(v.names)
  ELSE IF v.names[1] = "" THEN 0 ELSE 1

NoMocha == [files |-> {}, reporter |-> Undef(<<>>), started |-> FALSE]
NoSuite == [file |-> <<>>, tested |-> FALSE]

NoRunState ==
  /\ environment = NoEnvironment
  /\ resolved = Undef(<<>>)
  /\ funcs = Undef(<<>>)
  /\ testFileMap = <<>>
  /\ mocha = NoMocha
  /\ suite = NoSuite
  /\ exitHandler = Undef(0)
  /\ exitStatus = Undef(0)

\* --------------------------------------------------------- utility layer
\* utils.getTestFilePath: the conventional path of a function's test file.
getTestFilePath(funcName) == <<"test", funcName>>

\* utils.funcNameFromPath: the function name a test file path was built from.
funcNameFromPath(filePath) == IF Len(filePath) = 2 THEN filePath[2] ELSE ""

\* A file that was on disk before the command ran.
Preexisting ==
  [template |-> "preexisting", functionName |-> "", functionPath |-> <<>>,
   handlerName |-> Undef(<<>>)]

\* ------------------------------------------------------------- createTest
\* line 162: this.options.f || this.options.function
createFuncName == IF truthy(options.f) THEN options.f ELSE options.function

\* lines 169-171: the module path and the exported method of a handler.
handlerParts(handler) == split(handler, ".")
funcPath(handler) ==
  replaceBackslashes(handlerParts(handler)[1] \o <<".", "j", "s">>)
funcCall(handler) ==
  IF Len(handlerParts(handler)) >= 2
  THEN Some(handlerParts(handler)[2]) ELSE Undef(<<>>)

\* lines 186-190: ejs.render of the template with the three substitutions.
render(template, name, handler) ==
  [template |-> template, functionName |-> name,
   functionPath |-> funcPath(handler), handlerName |-> funcCall(handler)]

NoCtx ==
  [funcName |-> "", testFilePath |-> <<>>, exists |-> Undef(FALSE),
   content |-> Undef(Preexisting)]

\* line 165: utils.createTestFolder resolves once the test folder exists.
CreateTestFolder ==
  /\ pc = "createTest"
  /\ testDir' = TRUE
  /\ pc' = "testFolder"
  /\ UNCHANGED <<options, functions, files, log, ctx, writesIssued,
                 localTemplate>>
  /\ UNCHANGED runVars

\* lines 165-173: the callback of createTestFolder. Reading .handler of an
\* undeclared function throws; otherwise fs.exists(testFilePath) is issued.
OnTestFolder ==
  /\ pc = "testFolder"
  /\ LET f == createFuncName IN
       IF f.kind = "string" /\ f.names[1] \in DOMAIN functions
       THEN /\ ctx' = [ctx EXCEPT !.funcName = f.names[1],
                                  !.testFilePath = getTestFilePath(f.names[1])]
            /\ pc' = "targetExists"
       ELSE /\ ctx' = ctx
            /\ pc' = "threw"
  /\ UNCHANGED <<options, functions, files, log, writesIssued, localTemplate,
                 testDir>>
  /\ UNCHANGED runVars

\* lines 173-180 with the guard of lines 174-177 left out.
OnTargetExistsNoGuard ==
  /\ pc = "targetExists"
  /\ ctx' = [ctx EXCEPT !.exists = Some(ctx.testFilePath \in DOMAIN files)]
  /\ pc' = "templateExists"
  /\ UNCHANGED <<options, functions, files, log, writesIssued, localTemplate,
                 testDir>>
  /\ UNCHANGED runVars

\* lines 173-180: the callback of fs.exists(testFilePath).
OnTargetExists ==
  /\ pc = "targetExists"
  /\ LET exists == ctx.testFilePath \in DOMAIN files IN
       /\ ctx' = [ctx EXCEPT !.exists = Some(exists)]
       /\ IF exists
          THEN /\ log' = Append(log, [msg |-> "Test file already exists",
                                      arg |-> ctx.testFilePath])
               /\ pc' = "done"
          ELSE /\ log' = log
               /\ pc' = "templateExists"
  /\ UNCHANGED <<options, functions, files, writesIssued, localTemplate,
                 testDir>>
  /\ UNCHANGED runVars

\* lines 180-192: the callback of fs.exists(templateFilenamePath): the local
\* template if it exists, else the bundled one; an unreadable template
\* throws; otherwise the content is rendered and fs.writeFile is issued.
OnTemplateExists ==
  /\ pc = "templateExists"
  /\ \E readable \in BOOLEAN :
       IF readable
       THEN /\ ctx' = [ctx EXCEPT !.content =
                         Some(render(IF localTemplate THEN "local" ELSE "bundled",
                                     ctx.funcName, functions[ctx.funcName]))]
            /\ writesIssued' = writesIssued + 1
            /\ pc' = "writeFile"
       ELSE /\ ctx' = ctx
            /\ writesIssued' = writesIssued
            /\ pc' = "threw"
  /\ UNCHANGED <<options, functions, files, log, localTemplate, testDir>>
  /\ UNCHANGED runVars

\* lines 192-198: the callback of fs.writeFile, with or without an error.
OnWriteFile ==
  /\ pc = "writeFile"
  /\ \E err \in BOOLEAN :
       IF err
       THEN /\ files' = files
            /\ log' = Append(log, [msg |-> "Creating file failed",
                                   arg |-> ctx.testFilePath])
       ELSE /\ files' = [p \in DOMAIN files \cup {ctx.testFilePath} |->
                           IF p = ctx.testFilePath THEN ctx.content.val
                           ELSE files[p]]
            /\ log' = Append(log, [msg |-> "created", arg |-> ctx.testFilePath])
  /\ pc' = "done"
  /\ UNCHANGED <<options, functions, ctx, writesIssued, localTemplate, testDir>>
  /\ UNCHANGED runVars

Handlers == StringsUpTo(HandlerChars, MaxHandlerLen)
DefaultHandler == <<"h", ".", "h">>

NoReporter ==
  [reporter |-> Undef(""), reporterOptions |-> Undef(<<>>),
   stage |-> Undef(""), region |-> Undef("")]

MakeOptions(f, fn, r) ==
  [f |-> f, function |-> fn, reporter |-> r.reporter,
   reporterOptions |-> r.reporterOptions, stage |-> r.stage, region |-> r.region]

\* The create command: --function is one name (or missing), given as -f or
\* as --function; "hello" is declared with any handler string.
InitCreate ==
  /\ \E name \in AllNames \cup {""}, short \in BOOLEAN :
       options = MakeOptions(IF short /\ name # "" THEN OneFunc(name) ELSE NoFunc,
                             IF ~short /\ name # "" THEN OneFunc(name) ELSE NoFunc,
                             NoReporter)
  /\ \E h \in Handlers, declared \in {{"hello"}, FuncNames} :
       functions = [n \in declared |-> IF n = "hello" THEN h ELSE DefaultHandler]
  /\ \E existing \in SUBSET FuncNames :
       files = [p \in {getTestFilePath(n) : n \in existing} |-> Preexisting]
  /\ localTemplate \in BOOLEAN
  /\ testDir \in BOOLEAN
  /\ procEnv = <<>>
  /\ hostEnvironment = NoEnvironment
  /\ log = <<>>
  /\ pc = "createTest"
  /\ ctx = NoCtx
  /\ writesIssued = 0
  /\ NoRunState

NextCreate ==
  \/ CreateTestFolder
  \/ OnTestFolder
  \/ OnTargetExists
  \/ OnTemplateExists
  \/ OnWriteFile

SpecCreate == InitCreate /\ [][NextCreate]_vars


\* --------------------------------------------------------------- runTests
\* line 88: this.options.f || this.options.function || []
runFuncName ==
  IF truthy(options.f) THEN options.f
  ELSE IF truthy(options.function) THEN options.function
  ELSE FuncList(<<>>)

\* lines 212, 219-226: the names looked up, one string standing for a list
\* of one.
functionNames(funcNames) == funcNames.names

\* lines 206-230, with line 221's test left out: every requested name is
\* taken, declared or not.
getFunctionsUnchecked(funcNames, allFuncs) ==
  IF jsLength(funcNames) = 0
  THEN [funcObjs |-> allFuncs, warnings |-> <<>>]
  ELSE [funcObjs |-> [n \in {functionNames(funcNames)[i] :
                               i \in 1..Len(functionNames(funcNames))} |->
                        IF n \in DOMAIN allFuncs THEN allFuncs[n]
                        ELSE DefaultHandler],
        warnings |-> <<>>]

\* lines 206-230: getFunctions. All declared functions for an empty request;
\* otherwise the requested names that are declared, and a warning for each
\* requested name that is not.
getFunctions(funcNames, allFuncs) ==
  IF jsLength(funcNames) = 0
  THEN [funcObjs |-> allFuncs, warnings |-> <<>>]
  ELSE LET names == functionNames(funcNames)
           declared(n) == n \in DOMAIN allFuncs
           unknown(n) == ~declared(n)
       IN [funcObjs |-> [n \in {names[i] : i \in 1..Len(names)} \cap
                                DOMAIN allFuncs |-> allFuncs[n]],
           warnings |-> SelectSeq(names, unknown)]

\* utils.getTestFiles: the functions whose conventional test file exists,
\* each annotated with the path of that file.
getTestFiles(funcObjs) ==
  [n \in {m \in DOMAIN funcObjs : getTestFilePath(m) \in DOMAIN files} |->
     [handler |-> funcObjs[n], testPath |-> getTestFilePath(n)]]

\* utils.setEnv: each entry of vars written into the environment, replacing
\* a value of the same name; nothing is removed.
setEnv(env, envVars) ==
  [k \in DOMAIN env \cup DOMAIN envVars |->
     IF k \in DOMAIN envVars THEN envVars[k] ELSE env[k]]

\* lines 233-243 with the stage applied after the region.
setEnvVarsStageLast(env, opts) ==
  IF environment.def
  THEN LET e1 == setEnv(env, environment.val.vars) IN
       IF opts.stage.def
       THEN LET st == environment.val.stages[opts.stage.val]
                e2 == IF opts.region.def
                      THEN setEnv(e1, st.regions[opts.region.val].vars)
                      ELSE e1
            IN setEnv(e2, st.vars)
       ELSE e1
  ELSE env

\* lines 233-243: setEnvVars. The global variables, then those of the stage
\* if a stage is given, then those of the region if a region is given too.
\* The funcName argument is not read.
setEnvVars(env, opts) ==
  IF environment.def
  THEN LET e1 == setEnv(env, environment.val.vars) IN
       IF opts.stage.def
       THEN LET st == environment.val.stages[opts.stage.val]
                e2 == setEnv(e1, st.vars)
            IN IF opts.region.def
               THEN setEnv(e2, st.regions[opts.region.val].vars)
               ELSE e2
       ELSE e1
  ELSE env

\* lines 109-118: setEnvVars once for each function of funcNames.
RECURSIVE setEnvVarsTimes(_, _, _)
setEnvVarsTimes(n, env, opts) ==
  IF n = 0 THEN env ELSE setEnvVarsTimes(n - 1, setEnvVars(env, opts), opts)

\* A reporter option value: boolean true, or a string.
OptTrue == [bool |-> TRUE, str |-> <<>>]
OptStr(v) == [bool |-> FALSE, str |-> v]

\* lines 125-132 with the value of a k=v token dropped.
parseOptFlagOnly(acc, opt) ==
  LET L == split(opt, "=") IN
    IF Len(L) > 2 \/ Len(L) = 0
    THEN [acc EXCEPT !.threw = TRUE]
    ELSE [acc EXCEPT !.opts = setEnv(acc.opts, [k \in {L[1]} |-> OptTrue])]

\* lines 125-132: one token of the reporter options. More than two pieces
\* throws; two pieces set a string; one piece sets true.
parseOpt(acc, opt) ==
  LET L == split(opt, "=") IN
    IF Len(L) > 2 \/ Len(L) = 0
    THEN [acc EXCEPT !.threw = TRUE]
    ELSE IF Len(L) = 2
    THEN [acc EXCEPT !.opts = setEnv(acc.opts, [k \in {L[1]} |-> OptStr(L[2])])]
    ELSE [acc EXCEPT !.opts = setEnv(acc.opts, [k \in {L[1]} |-> OptTrue])]

\* lines 124-133: the forEach over the comma-separated tokens, which the
\* first throw ends.
RECURSIVE parseOpts(_, _)
parseOpts(acc, toks) ==
  IF toks = <<>> \/ acc.threw THEN acc
  ELSE parseOpts(parseOpt(acc, Head(toks)), Tail(toks))

parseReporterOptions(str) ==
  parseOpts([threw |-> FALSE, opts |-> <<>>], split(str, ","))

\* lines 119-136 with line 121's test left out: the options are parsed
\* whether or not a reporter is given.
reporterStepAlways(opts) ==
  IF opts.reporterOptions.def
  THEN LET parsed == parseReporterOptions(opts.reporterOptions.val) IN
         [threw |-> parsed.threw,
          reporter |-> IF parsed.threw \/ ~opts.reporter.def THEN Undef(<<>>)
                       ELSE Some([name |-> opts.reporter.val,
                                  options |-> parsed.opts])]
  ELSE [threw |-> FALSE,
        reporter |-> IF opts.reporter.def
                     THEN Some([name |-> opts.reporter.val, options |-> <<>>])
                     ELSE Undef(<<>>)]

\* lines 119-136: the reporter is set only if one is given, with the parsed
\* options if an options string is given too.
reporterStep(opts) ==
  IF opts.reporter.def
  THEN IF opts.reporterOptions.def
       THEN LET parsed == parseReporterOptions(opts.reporterOptions.val) IN
              [threw |-> parsed.threw,
               reporter |-> IF parsed.threw THEN Undef(<<>>)
                            ELSE Some([name |-> opts.reporter.val,
                                       options |-> parsed.opts])]
       ELSE [threw |-> FALSE,
             reporter |-> Some([name |-> opts.reporter.val, options |-> <<>>])]
  ELSE [threw |-> FALSE, reporter |-> Undef(<<>>)]

\* lines 105-108 with the test never true.
nothingToRunNever(fs) == FALSE

\* lines 105-108: no function is left to run.
nothingToRun(fs) == Cardinality(DOMAIN fs) = 0

\* lines 86-98: runTests creates the Mocha instance and asks the host to
\* load the service for the stage and region.
RunTests ==
  /\ pc = "runTests"
  /\ mocha' = NoMocha
  /\ pc' = "load"
  /\ UNCHANGED <<environment, procEnv, resolved, funcs, testFileMap, suite,
                 exitHandler, exitStatus, log>>
  /\ UNCHANGED hostVars
  /\ UNCHANGED createVars

\* lines 99-103: service.load resolved. The environment is kept and
\* getFunctions runs, logging its warnings.
OnLoaded ==
  /\ pc = "load"
  /\ environment' = hostEnvironment
  /\ LET r == getFunctions(runFuncName, functions) IN
       /\ resolved' = Some(r.funcObjs)
       /\ log' = log \o [i \in 1..Len(r.warnings) |->
                           [msg |-> "Warning: Could not find function",
                            arg |-> <<r.warnings[i]>>]]
  /\ pc' = "getTestFiles"
  /\ UNCHANGED <<procEnv, funcs, testFileMap, mocha, suite, exitHandler,
                 exitStatus>>
  /\ UNCHANGED hostVars
  /\ UNCHANGED createVars

\* line 95: service.load rejected; runTests attaches no handler for that.
LoadRejected ==
  /\ pc = "load"
  /\ pc' = "rejected"
  /\ UNCHANGED <<environment, procEnv, resolved, funcs, testFileMap, mocha,
                 suite, exitHandler, exitStatus, log>>
  /\ UNCHANGED hostVars
  /\ UNCHANGED createVars

\* line 103: utils.getTestFiles resolves with the functions that have a
\* test file.
GetTestFiles ==
  /\ pc = "getTestFiles"
  /\ funcs' = Some(getTestFiles(resolved.val))
  /\ pc' = "onTestFiles"
  /\ UNCHANGED <<environment, procEnv, resolved, testFileMap, mocha, suite,
                 exitHandler, exitStatus, log>>
  /\ UNCHANGED hostVars
  /\ UNCHANGED createVars

\* lines 103, 157: utils.getTestFiles rejects on a file-system error, which
\* the rejection handler logs.
GetTestFilesRejected ==
  /\ pc = "getTestFiles"
  /\ log' = Append(log, [msg |-> "error", arg |-> <<"getTestFiles">>])
  /\ pc' = "done"
  /\ UNCHANGED <<environment, procEnv, resolved, funcs, testFileMap, mocha,
                 suite, exitHandler, exitStatus>>
  /\ UNCHANGED hostVars
  /\ UNCHANGED createVars

\* lines 104-153: the handler of the discovered functions, up to the return
\* of mocha.run. Nothing to run is logged. Otherwise the environment is set
\* and each test file added, the reporter options are parsed (a throw ends
\* the handler there), and the run is started.
OnTestFiles ==
  /\ pc = "onTestFiles"
  /\ IF nothingToRun(funcs.val)
     THEN /\ log' = Append(log, [msg |-> "No tests to run", arg |-> <<>>])
          /\ pc' = "done"
          /\ UNCHANGED <<procEnv, testFileMap, mocha>>
     ELSE LET funcNames == DOMAIN funcs.val
              r == reporterStep(options)
          IN /\ procEnv' = setEnvVarsTimes(Cardinality(funcNames), procEnv,
                                           options)
             /\ testFileMap' = funcs.val
             /\ mocha' = [files |-> {funcs.val[n].testPath : n \in funcNames},
                          reporter |-> r.reporter,
                          started |-> ~r.threw]
             /\ pc' = IF r.threw THEN "threw" ELSE "running"
             /\ log' = log
  /\ UNCHANGED <<environment, resolved, funcs, suite, exitHandler, exitStatus>>
  /\ UNCHANGED hostVars
  /\ UNCHANGED createVars

\* lines 143-153 with the call of setEnvVars left out.
onSuiteNoEnv(env, file) == env

\* lines 143-153: the 'suite' listener. The function name is taken from the
\* suite's file; if it is in testFileMap the environment is set again.
onSuite(env, file) ==
  LET funcName == funcNameFromPath(file) IN
    IF funcName \in DOMAIN testFileMap
    THEN setEnvVars(env, options)
    ELSE env

\* A file no registered function's test file path: a suite of it is not in
\* testFileMap.
OtherFile == <<"test", "ghost">>

\* The engine announces a suite, which runs the 'suite' listener.
SuiteStart ==
  /\ pc = "running"
  /\ \E file \in mocha.files \cup {OtherFile} :
       /\ procEnv' = onSuite(procEnv, file)
       /\ suite' = [file |-> file, tested |-> FALSE]
  /\ pc' = "inSuite"
  /\ UNCHANGED <<environment, resolved, funcs, testFileMap, mocha,
                 exitHandler, exitStatus, log>>
  /\ UNCHANGED hostVars
  /\ UNCHANGED createVars

\* The engine runs a test of the current suite; the code under test may
\* write a variable of the process environment.
TestBody ==
  /\ pc = "inSuite"
  /\ \E written \in SUBSET EnvKeys :
       procEnv' = setEnv(procEnv, [k \in written |-> "test"])
  /\ suite' = [suite EXCEPT !.tested = TRUE]
  /\ UNCHANGED <<environment, resolved, funcs, testFileMap, mocha,
                 exitHandler, exitStatus, log, pc>>
  /\ UNCHANGED hostVars
  /\ UNCHANGED createVars

\* The engine ends the current suite.
SuiteEnd ==
  /\ pc = "inSuite"
  /\ suite' = [file |-> <<>>, tested |-> TRUE]
  /\ pc' = "running"
  /\ UNCHANGED <<environment, procEnv, resolved, funcs, testFileMap, mocha,
                 exitHandler, exitStatus, log>>
  /\ UNCHANGED hostVars
  /\ UNCHANGED createVars

\* The failure counts the engine reports.
FailureCounts == {0, 1, 2, 3, MaxFailures - 1, MaxFailures}

\* lines 138-141: the engine ends the run and calls back with the failure
\* count; the callback registers the 'exit' listener.
RunComplete ==
  /\ pc = "running"
  /\ \E failures \in FailureCounts : exitHandler' = Some(failures)
  /\ pc' = "completed"
  /\ UNCHANGED <<environment, procEnv, resolved, funcs, testFileMap, mocha,
                 suite, exitStatus, log>>
  /\ UNCHANGED hostVars
  /\ UNCHANGED createVars

\* line 140: the process ends and the 'exit' listener calls
\* process.exit(failures). The status a process ends with is one byte.
ProcessExit ==
  /\ pc = "completed"
  /\ exitStatus' = Some(exitHandler.val % 256)
  /\ pc' = "exited"
  /\ UNCHANGED <<environment, procEnv, resolved, funcs, testFileMap, mocha,
                 suite, exitHandler, log>>
  /\ UNCHANGED hostVars
  /\ UNCHANGED createVars

\* The process ends with no 'exit' listener registered: its status is not
\* the plugin's.
ProcessExitDefault ==
  /\ pc \in {"done", "threw", "rejected"}
  /\ pc' = "ended"
  /\ UNCHANGED <<environment, procEnv, resolved, funcs, testFileMap, mocha,
                 suite, exitHandler, exitStatus, log>>
  /\ UNCHANGED hostVars
  /\ UNCHANGED createVars

NextRun ==
  \/ RunTests
  \/ OnLoaded
  \/ LoadRejected
  \/ GetTestFiles
  \/ GetTestFilesRejected
  \/ OnTestFiles
  \/ SuiteStart
  \/ TestBody
  \/ SuiteEnd
  \/ RunComplete
  \/ ProcessExit
  \/ ProcessExitDefault

\* ------------------------------------------------------ inputs of a run
FuncOptions ==
  {NoFunc, OneFunc("")} \cup {OneFunc(n) : n \in AllNames}
    \cup {FuncList(l) : l \in StringsUpTo(AllNames, MaxReq)}

\* -f and --function: one of them given, or both.
AllRequests ==
  {[f |-> v, function |-> NoFunc] : v \in FuncOptions}
    \cup {[f |-> NoFunc, function |-> v] : v \in FuncOptions}
    \cup {[f |-> OneFunc("hello"), function |-> OneFunc("world")],
          [f |-> OneFunc(""), function |-> OneFunc("world")]}
SampleRequests ==
  {[f |-> NoFunc, function |-> NoFunc],
   [f |-> OneFunc("ghost"), function |-> NoFunc]}

OptStrings == StringsUpTo(OptChars, MaxOptLen)
DotTimeout ==
  <<"d", "o", "t", ",", "t", "i", "m", "e", "o", "u", "t", "=", "5", "0", "0", "0">>
AllReporters ==
  {[reporter |-> r, reporterOptions |-> o] :
     r \in {Undef(""), Some("spec")},
     o \in {Undef(<<>>)} \cup {Some(str) : str \in OptStrings \cup {DotTimeout}}}
SampleReporters ==
  {[reporter |-> Undef(""), reporterOptions |-> Undef(<<>>)],
   [reporter |-> Some("spec"), reporterOptions |-> Some(<<"a", "=", "a">>)],
   [reporter |-> Some("spec"), reporterOptions |-> Some(<<"a", "=", "a", "=">>)]}

AllStageRegions ==
  {[stage |-> st, region |-> rg] :
     st \in {Undef("")} \cup {Some(x) : x \in Stages},
     rg \in {Undef("")} \cup {Some(x) : x \in Regions}}
SampleStageRegions == {[stage |-> Some("dev"), region |-> Some("us")]}

AllHostEnvironments ==
  {NoEnvironment} \cup
  {Some(MakeEnvironment(g, st, rg)) :
     g \in ScopeVars("global"), st \in ScopeVars("stage"),
     rg \in ScopeVars("region")}
SampleHostEnvironments ==
  {NoEnvironment,
   Some(MakeEnvironment([k \in EnvKeys |-> "global"], [k \in {1} |-> "stage"],
                        <<>>))}

AllProcEnvs == ScopeVars("inherited")
SampleProcEnvs == {<<>>}

InitRunWith(reqs, decls, existings, reps, stageRegions, hostEnvs, procEnvs) ==
  /\ \E q \in reqs, r \in reps, sr \in stageRegions :
       options = MakeOptions(q.f, q.function,
                             [reporter |-> r.reporter,
                              reporterOptions |-> r.reporterOptions,
                              stage |-> sr.stage, region |-> sr.region])
  /\ \E declared \in decls : functions = [n \in declared |-> DefaultHandler]
  /\ \E existing \in existings :
       files = [p \in {getTestFilePath(n) : n \in existing} |-> Preexisting]
  /\ hostEnvironment \in hostEnvs
  /\ procEnv \in procEnvs
  /\ environment = NoEnvironment
  /\ resolved = Undef(<<>>)
  /\ funcs = Undef(<<>>)
  /\ testFileMap = <<>>
  /\ mocha = NoMocha
  /\ suite = NoSuite
  /\ exitHandler = Undef(0)
  /\ exitStatus = Undef(0)
  /\ log = <<>>
  /\ pc = "runTests"
  /\ ctx = NoCtx
  /\ writesIssued = 0
  /\ localTemplate = FALSE
  /\ testDir = TRUE

\* Every request against every set of declarations and test files.
InitResolve ==
  InitRunWith(AllRequests, SUBSET FuncNames, SUBSET FuncNames,
              SampleReporters, SampleStageRegions, SampleHostEnvironments,
              SampleProcEnvs)

\* Every reporter and reporter-options string.
InitReporter ==
  InitRunWith(SampleRequests, {{"hello"}}, {{}, {"hello"}},
              AllReporters, SampleStageRegions, SampleHostEnvironments,
              SampleProcEnvs)

\* Every environment hierarchy, stage, region and inherited environment.
InitEnv ==
  InitRunWith(SampleRequests, {FuncNames}, {{"hello"}, FuncNames},
              {r \in SampleReporters : r.reporterOptions.val # <<"a", "=", "a">>},
              AllStageRegions, AllHostEnvironments, AllProcEnvs)

SpecResolve == InitResolve /\ [][NextRun]_vars
SpecReporter == InitReporter /\ [][NextRun]_vars
SpecEnv == InitEnv /\ [][NextRun]_vars

\* ------------------------------------------------------------ properties
Logged(msg, arg) == \E i \in 1..Len(log) : log[i] = [msg |-> msg, arg |-> arg]

\* The positions of character c in string s.
Positions(s, c) == {i \in 1..Len(s) : s[i] = c}
LastPos(s, c) == CHOOSE i \in Positions(s, c) : \A j \in Positions(s, c) : j <= i
FirstPos(s, c) == CHOOSE i \in Positions(s, c) : \A j \in Positions(s, c) : i <= j

\* A handler <module-path>.<exported-method>: the method is what follows the
\* last '.', the module path what precedes it. In a valid one no '.' or
\* backslash is the first or last character or follows another, and the
\* method holds no backslash.
ModulePortion(h) == SubSeq(h, 1, LastPos(h, ".") - 1)
MethodPortion(h) == SubSeq(h, LastPos(h, ".") + 1, Len(h))
Separators(h) == Positions(h, ".") \cup Positions(h, "\\")
ValidHandler(h) ==
  /\ Positions(h, ".") # {}
  /\ \A i \in Separators(h) : i > 1 /\ i < Len(h) /\ i + 1 \notin Separators(h)
  /\ Positions(MethodPortion(h), "\\") = {}

\* C1: in every run of createTest in which the target test file exists when
\* it is checked, no write is issued, the existing path is reported on the
\* logging sink, and the files on disk stay as they were.
C1_NoOverwrite ==
  /\ [](ctx.exists = Some(TRUE) =>
          /\ writesIssued = 0
          /\ ~ctx.content.def
          /\ Logged("Test file already exists", ctx.testFilePath))
  /\ [][ctx'.exists = Some(TRUE) => files' = files]_vars

C1_Witness ==
  /\ pc = "done"
  /\ ctx.exists = Some(TRUE)
  /\ ctx.testFilePath \in DOMAIN files
  /\ files[ctx.testFilePath] = Preexisting

\* C2: for every valid handler, the template is rendered with functionName
\* the declared name, functionPath the handler's module portion with forward
\* slashes and the .js extension, and handlerName the handler's method
\* portion.
C2_TemplateContext ==
  (ctx.content.def /\ ValidHandler(functions[ctx.funcName])) =>
    LET h == functions[ctx.funcName]
        c == ctx.content.val
    IN /\ c.functionName = ctx.funcName
       /\ c.functionPath = replaceBackslashes(ModulePortion(h)) \o <<".", "j", "s">>
       /\ c.handlerName = Some(MethodPortion(h))

\* A token of a reporter-options string: its key is what precedes the first
\* '=', or all of it without one; its value what follows the first '='.
Tokens(str) == split(str, ",")
HasEq(tok) == Positions(tok, "=") # {}
KeyOf(tok) == IF HasEq(tok) THEN SubSeq(tok, 1, FirstPos(tok, "=") - 1) ELSE tok
ValueOf(tok) == SubSeq(tok, FirstPos(tok, "=") + 1, Len(tok))

\* A token that is empty or holds more than one '='.
Malformed(str) ==
  \E i \in 1..Len(Tokens(str)) :
    \/ Tokens(str)[i] = <<>>
    \/ Cardinality(Positions(Tokens(str)[i], "=")) > 1

\* C3: with a reporter given, a reporter-options string that holds an empty
\* token or a token with more than one '=' ends runTests with an error and
\* the engine's run is never started.
C3_MalformedAborts ==
  (options.reporter.def /\ options.reporterOptions.def
     /\ Malformed(options.reporterOptions.val)) =>
    /\ ~mocha.started
    /\ pc \notin {"running", "inSuite", "completed", "exited"}

\* C4: the reporter options set from an options string hold exactly the keys
\* of its tokens; the last token of a key decides its value, true without
\* '=' and the string after '=' with it; "dot,timeout=5000" gives
\* { dot: true, timeout: "5000" }.
C4_ParsedOptions ==
  (mocha.reporter.def /\ options.reporterOptions.def) =>
    LET toks == Tokens(options.reporterOptions.val)
        o == mocha.reporter.val.options
    IN /\ DOMAIN o = {KeyOf(toks[i]) : i \in 1..Len(toks)}
       /\ \A i \in 1..Len(toks) :
            (\A j \in (i + 1)..Len(toks) : KeyOf(toks[j]) # KeyOf(toks[i])) =>
              o[KeyOf(toks[i])] = IF HasEq(toks[i]) THEN OptStr(ValueOf(toks[i]))
                                  ELSE OptTrue
       /\ options.reporterOptions.val = DotTimeout =>
            o = (<<"d", "o", "t">> :> OptTrue) @@
                (<<"t", "i", "m", "e", "o", "u", "t">> :>
                   OptStr(<<"5", "0", "0", "0">>))

C4_Witness ==
  /\ mocha.started
  /\ mocha.reporter.def
  /\ options.reporterOptions = Some(DotTimeout)
  /\ DOMAIN mocha.reporter.val.options =
       {<<"d", "o", "t">>, <<"t", "i", "m", "e", "o", "u", "t">>}

\* The state is the one a call of setEnvVars left: after the functions were
\* registered and before any suite, or at the start of a registered suite.
RegisteredSuite ==
  /\ pc = "inSuite"
  /\ ~suite.tested
  /\ funcNameFromPath(suite.file) \in DOMAIN testFileMap
AfterSetEnvVars ==
  \/ pc = "running" /\ suite = NoSuite
  \/ RegisteredSuite

\* C5: after a call of setEnvVars with a stage and a region, every variable
\* holds the region's value if the region defines it, else the stage's if
\* the stage defines it, else the global one if the global scope defines it.
C5_RegionOverStageOverGlobal ==
  (AfterSetEnvVars /\ environment.def /\ options.stage.def
     /\ options.region.def) =>
    LET g == environment.val.vars
        st == environment.val.stages[options.stage.val].vars
        rg == environment.val.stages[options.stage.val]
                .regions[options.region.val].vars
    IN \A k \in EnvKeys :
         IF k \in DOMAIN rg THEN k \in DOMAIN procEnv /\ procEnv[k] = rg[k]
         ELSE IF k \in DOMAIN st THEN k \in DOMAIN procEnv /\ procEnv[k] = st[k]
         ELSE IF k \in DOMAIN g THEN k \in DOMAIN procEnv /\ procEnv[k] = g[k]
         ELSE TRUE

C5_Witness ==
  /\ AfterSetEnvVars
  /\ environment.def /\ options.stage.def /\ options.region.def
  /\ \E k \in EnvKeys :
       /\ k \in DOMAIN environment.val.vars
       /\ k \in DOMAIN environment.val.stages[options.stage.val].vars
       /\ k \in DOMAIN environment.val.stages[options.stage.val]
                         .regions[options.region.val].vars
       /\ procEnv[k] = "region"
  /\ \E k \in EnvKeys :
       /\ k \in DOMAIN environment.val.vars
       /\ k \in DOMAIN environment.val.stages[options.stage.val].vars
       /\ k \notin DOMAIN environment.val.stages[options.stage.val]
                            .regions[options.region.val].vars
       /\ procEnv[k] = "stage"

\* The names a request asks for, and whether it asks for any.
Requested == {runFuncName.names[i] : i \in 1..Len(runFuncName.names)}
EmptyRequest ==
  \/ ~truthy(options.f) /\ ~truthy(options.function)
  \/ runFuncName.kind = "array" /\ runFuncName.names = <<>>
Warnings ==
  LET isWarning(m) == m.msg = "Warning: Could not find function"
      w == SelectSeq(log, isWarning)
  IN [i \in 1..Len(w) |-> w[i].arg[1]]

\* C6: for a request that is not empty and names only undeclared functions,
\* nothing is resolved, "No tests to run" is logged, and the engine is given
\* no file and is not started.
C6_OnlyUnknownNames ==
  (~EmptyRequest /\ Requested \cap DOMAIN functions = {}) =>
    /\ resolved.def => DOMAIN resolved.val = {}
    /\ funcs.def => DOMAIN funcs.val = {}
    /\ (funcs.def /\ pc # "onTestFiles") => Logged("No tests to run", <<>>)
    /\ mocha.files = {}
    /\ ~mocha.started
    /\ pc \notin {"running", "inSuite", "completed", "exited", "threw"}

C6_Witness ==
  /\ ~EmptyRequest
  /\ Requested \cap DOMAIN functions = {}
  /\ DOMAIN functions # {}
  /\ getTestFilePath("hello") \in DOMAIN files
  /\ pc = "done"
  /\ Logged("No tests to run", <<>>)

\* C7: once the engine has reported a failure count n and the process has
\* ended, its exit status is exactly n; when the engine was never run the
\* plugin sets no exit status.
C7_ExitStatus ==
  /\ pc = "exited" => exitStatus = exitHandler
  /\ ~mocha.started => ~exitHandler.def /\ ~exitStatus.def

\* C8: an empty or absent request resolves to all declared functions; any
\* other resolves to exactly the requested names that are declared, with one
\* warning logged, in order, for each requested name that is not; resolution
\* never rejects.
C8_Resolution ==
  /\ pc \notin {"runTests", "load", "rejected", "ended"} => resolved.def
  /\ resolved.def =>
       IF EmptyRequest
       THEN resolved.val = functions /\ Warnings = <<>>
       ELSE LET undeclared(n) == n \notin DOMAIN functions IN
              /\ DOMAIN resolved.val = Requested \cap DOMAIN functions
              /\ \A n \in DOMAIN resolved.val : resolved.val[n] = functions[n]
              /\ Warnings = SelectSeq(runFuncName.names, undeclared)

C8_Witness ==
  /\ pc = "getTestFiles"
  /\ runFuncName = FuncList(<<"ghost", "hello">>)
  /\ DOMAIN resolved.val = {"hello"}
  /\ Warnings = <<"ghost">>

\* The value the scopes that setEnvVars applies give variable k: the
\* region's if a stage and a region are given, else the stage's if a stage
\* is given, else the global one; none if no applied scope defines k.
Layered(k) ==
  LET g == environment.val.vars
      st == IF options.stage.def
            THEN environment.val.stages[options.stage.val].vars ELSE <<>>
      rg == IF options.stage.def /\ options.region.def
            THEN environment.val.stages[options.stage.val]
                   .regions[options.region.val].vars
            ELSE <<>>
  IN IF k \in DOMAIN rg THEN Some(rg[k])
     ELSE IF k \in DOMAIN st THEN Some(st[k])
     ELSE IF k \in DOMAIN g THEN Some(g[k])
     ELSE Undef("")

\* C9: at the start of every suite whose file maps to a registered function,
\* before any test of it runs, every variable the applied scopes define
\* holds its layered value, whatever earlier tests wrote; and once the
\* engine is running the environment changes only in a suite-start
\* notification of a registered suite, or by the code under test.
C9_EnvPerSuite ==
  /\ [](RegisteredSuite /\ environment.def =>
          \A k \in EnvKeys :
            Layered(k).def => k \in DOMAIN procEnv /\ procEnv[k] = Layered(k).val)
  /\ [][(mocha.started /\ procEnv' # procEnv) =>
          \/ pc = "running" /\ RegisteredSuite'
          \/ pc = "inSuite" /\ suite'.tested]_vars

C9_Witness ==
  /\ RegisteredSuite
  /\ environment.def
  /\ Layered(1).def /\ procEnv[1] = Layered(1).val
  /\ ~Layered(2).def /\ 2 \in DOMAIN procEnv /\ procEnv[2] = "test"

\* C10: with no reporter given, a reporter-options string, malformed or not,
\* changes nothing: no error is raised, no reporter is set, and the engine
\* is started with the discovered test files.
C10_OptionsIgnoredWithoutReporter ==
  (~options.reporter.def /\ funcs.def /\ DOMAIN funcs.val # {}
     /\ pc # "onTestFiles") =>
    /\ pc # "threw"
    /\ mocha.started
    /\ ~mocha.reporter.def
    /\ mocha.files = {getTestFilePath(n) : n \in DOMAIN funcs.val}

C10_Witness ==
  /\ ~options.reporter.def
  /\ options.reporterOptions.def
  /\ Malformed(options.reporterOptions.val)
  /\ pc = "running"
  /\ mocha.files = {getTestFilePath("hello")}

=============================================================================
